---------------------------- MODULE Spec2Model ----------------------------
(***************************************************************************)
(* A model of the two container codecs of img-parts:                       *)
(*   - src/src/riff.rs          RiffChunk / RiffContent (chunk tree)        *)
(*   - src/src/jpeg/segment.rs  JpegSegment (marker-delimited segment)      *)
(*                                                                         *)
(* Byte buffers are sequences of numbers 0..255.  A Bytes cursor is the     *)
(* sequence of bytes that remain; a Vec<u8> writer is the sequence of       *)
(* bytes written so far.  A Rust panic is an outcome of its own             *)
(* ([tag |-> "Panic"]), distinct from a returned Err.                       *)
(***************************************************************************)
EXTENDS Integers, Sequences, FiniteSets, TLC

VARIABLES
    pc,       \* position of the driving caller
    tree,     \* the RiffChunk the caller holds (built with RiffChunk::new)
    w,        \* bytes RiffChunk::write_to(tree) wrote to a fresh Vec<u8>
    n,        \* value returned by tree.len()
    b,        \* the buffer handed to RiffChunk::from_bytes / from_bytes_impl
    edited,   \* whether b was altered after it was written
    check,    \* the check_riff_id flag of the decode that produced result
    result,   \* outcome of the decode of b
    w2,       \* bytes write_to wrote for the decoded chunk
    seg,      \* the JpegSegment the caller holds
    jargs,    \* the arguments seg was constructed from with new_icc, if it was
    r,        \* the reader handed to JpegSegment::read
    jres,     \* outcome of JpegSegment::read or JpegSegment::icc
    jn,       \* values returned by seg.len() and seg.len_with_entropy()
    jw,       \* outcome of JpegSegment::write_to(seg) on a fresh Vec<u8>
    big,      \* a segment or chunk too large to hold byte by byte, by its sizes
    bigres    \* outcome of the size and length-field computations on big

vars == <<pc, tree, w, n, b, edited, check, result, w2, seg, jargs, r, jres, jn, jw,
          big, bigres>>

riffVars == <<tree, w, n, b, edited, check, result, w2>>
jpegVars == <<seg, jargs, r, jres, jn, jw>>
bigVars == <<big, bigres>>

---------------------------------------------------------------------------
(* Bounds of the model *)

\* longest Data payload the caller puts in a chunk
MaxData == 3
\* largest encoded size (bytes) of a chunk tree the caller builds
MaxBytes == 35
\* longest buffer that is altered before it is decoded
MaxEditBytes == 31

---------------------------------------------------------------------------
(* Bytes and cursors *)

Take(s, k) == SubSeq(s, 1, k)
Drop(s, k) == SubSeq(s, k + 1, Len(s))

\* WriteBytesExt::write_u32::<LittleEndian>
U32LE(v) ==
    << v % 256, (v \div 256) % 256, (v \div 65536) % 256, (v \div 16777216) % 256 >>

\* Buf::get_u32_le on the first four bytes of s
GetU32LE(s) == s[1] + 256 * s[2] + 65536 * s[3] + 16777216 * s[4]

\* the four-byte tags the model uses
RIFF == <<82, 73, 70, 70>>
LIST == <<76, 73, 83, 84>>
seqt == <<115, 101, 113, 116>>
VP8X == <<86, 80, 56, 88>>
WEBP == <<87, 69, 66, 80>>

Ids == {RIFF, LIST, seqt, VP8X}

\* the payload of n bytes the caller stores in a Data chunk (no byte is 0)
Payload(k) == [i \in 1..k |-> 16 + i]

---------------------------------------------------------------------------
(* riff.rs: the data model.  Option<[u8; 4]> is <<>> (None) or <<tag>>.     *)

Data(d) == [variant |-> "Data", data |-> d]
List(kind, subchunks) == [variant |-> "List", kind |-> kind, subchunks |-> subchunks]

RiffChunk_new(id, content) == [id |-> id, content |-> content]

has_subchunks(id) == id \in {RIFF, LIST, seqt}

has_kind(id) == id \in {RIFF, LIST}

---------------------------------------------------------------------------
(* riff.rs: size accounting and encode.  The sizes reached here stay far    *)
(* below 2^32, so the u32 arithmetic of len() never wraps; the arithmetic   *)
(* at the width of u32 is RiffChunk_len_u32 below.                          *)

RECURSIVE RiffChunk_len(_), RiffContent_len(_), SumLen(_)
RECURSIVE RiffChunk_write_to(_), RiffContent_write_to(_), WriteAll(_)
RECURSIVE from_bytes_impl(_, _), RiffContent_from_bytes(_, _), ReadSubchunks(_, _)

\* subchunks.iter().map(|subchunk| subchunk.len()).sum::<u32>()
SumLen(cs) ==
    IF cs = <<>> THEN 0 ELSE RiffChunk_len(Head(cs)) + SumLen(Tail(cs))

RiffContent_len(c) ==
    IF c.variant = "List"
    THEN (IF c.kind # <<>> THEN 4 ELSE 0) + SumLen(c.subchunks)
    ELSE Len(c.data)

\* len() without the pad byte
RiffChunk_len_no_pad(c) ==
    4 + 4 + RiffContent_len(c.content)

RiffChunk_len(c) ==
    LET len == 4 + 4 + RiffContent_len(c.content)
    IN  len + (len % 2)

\* for chunk in subchunks { chunk.write_to(w)?; }
WriteAll(cs) ==
    IF cs = <<>> THEN <<>> ELSE RiffChunk_write_to(Head(cs)) \o WriteAll(Tail(cs))

\* write_to without the pad byte
RiffContent_write_to_no_pad(c) ==
    IF c.variant = "List"
    THEN (IF c.kind # <<>> THEN c.kind[1] ELSE <<>>) \o WriteAll(c.subchunks)
    ELSE c.data

RiffContent_write_to(c) ==
    IF c.variant = "List"
    THEN (IF c.kind # <<>> THEN c.kind[1] ELSE <<>>) \o WriteAll(c.subchunks)
    ELSE c.data \o (IF Len(c.data) % 2 # 0 THEN <<0>> ELSE <<>>)

RiffChunk_write_to(c) ==
    c.id \o U32LE(RiffContent_len(c.content)) \o RiffContent_write_to(c.content)

---------------------------------------------------------------------------
(* riff.rs: decode.  An outcome is Ok (value and the bytes that remain in   *)
(* the cursor), Err (returned to the caller) or Panic (the Bytes cursor     *)
(* asserts that enough bytes remain; unwinding aborts the decode).          *)

Ok(v, rest) == [tag |-> "Ok", val |-> v, rest |-> rest]
Err(e) == [tag |-> "Err", err |-> e]
Panic(at) == [tag |-> "Panic", at |-> at]

\* while !content.is_empty() { subchunks.push(from_bytes_impl(&mut content, false)?) }
ReadSubchunks(content, subchunks) ==
    IF content = <<>>
    THEN Ok(subchunks, <<>>)
    ELSE LET sub == from_bytes_impl(content, FALSE)
         IN  IF sub.tag # "Ok"
             THEN sub
             ELSE ReadSubchunks(sub.rest, Append(subchunks, sub.val))

\* decode that keeps the pad byte in the Data content
RiffContent_from_bytes_keeps_pad(buf, id) ==
    IF Len(buf) < 4
    THEN Panic("get_u32_le")
    ELSE LET len == GetU32LE(buf)
             b1 == Drop(buf, 4)
         IN  IF len > Len(b1)
             THEN Panic("split_to")
             ELSE LET content == Take(b1, len)
                      rest == Drop(b1, len)
                  IN  IF has_subchunks(id)
                      THEN IF has_kind(id) /\ Len(content) < 4
                           THEN Panic("copy_to_slice")
                           ELSE LET kind == IF has_kind(id)
                                            THEN <<Take(content, 4)>>
                                            ELSE <<>>
                                    body == IF has_kind(id)
                                            THEN Drop(content, 4)
                                            ELSE content
                                    subs == ReadSubchunks(body, <<>>)
                                IN  IF subs.tag # "Ok"
                                    THEN subs
                                    ELSE Ok(List(kind, subs.val), rest)
                      ELSE IF len % 2 > Len(rest)
                           THEN Panic("advance")
                           ELSE Ok(Data(content \o Take(rest, len % 2)),
                                   Drop(rest, len % 2))

RiffContent_from_bytes(buf, id) ==
    IF Len(buf) < 4
    THEN Panic("get_u32_le")
    ELSE LET len == GetU32LE(buf)
             b1 == Drop(buf, 4)
         IN  IF len > Len(b1)
             THEN Panic("split_to")
             ELSE LET content == Take(b1, len)
                      rest == Drop(b1, len)
                  IN  IF has_subchunks(id)
                      THEN IF has_kind(id) /\ Len(content) < 4
                           THEN Panic("copy_to_slice")
                           ELSE LET kind == IF has_kind(id)
                                            THEN <<Take(content, 4)>>
                                            ELSE <<>>
                                    body == IF has_kind(id)
                                            THEN Drop(content, 4)
                                            ELSE content
                                    subs == ReadSubchunks(body, <<>>)
                                IN  IF subs.tag # "Ok"
                                    THEN subs
                                    ELSE Ok(List(kind, subs.val), rest)
                      ELSE IF len % 2 > Len(rest)
                           THEN Panic("advance")
                           ELSE Ok(Data(content), Drop(rest, len % 2))

\* decode that checks the id whatever the flag says
from_bytes_impl_always_checks(buf, check_riff_id) ==
    IF Len(buf) < 4
    THEN Panic("copy_to_slice")
    ELSE LET id == Take(buf, 4)
         IN  IF id # RIFF
             THEN Err("NoRiffHeader")
             ELSE LET content == RiffContent_from_bytes(Drop(buf, 4), id)
                  IN  IF content.tag # "Ok"
                      THEN content
                      ELSE Ok(RiffChunk_new(id, content.val), content.rest)

from_bytes_impl(buf, check_riff_id) ==
    IF Len(buf) < 4
    THEN Panic("copy_to_slice")
    ELSE LET id == Take(buf, 4)
         IN  IF check_riff_id /\ id # RIFF
             THEN Err("NoRiffHeader")
             ELSE LET content == RiffContent_from_bytes(Drop(buf, 4), id)
                  IN  IF content.tag # "Ok"
                      THEN content
                      ELSE Ok(RiffChunk_new(id, content.val), content.rest)

RiffChunk_from_bytes(buf) == from_bytes_impl(buf, TRUE)

---------------------------------------------------------------------------
(* The caller of the chunk codec *)

NoChunk == RiffChunk_new(<<>>, Data(<<>>))
NoResult == [tag |-> "None"]

\* a leaf the caller places beside the chunk it has built
Siblings == { RiffChunk_new(VP8X, Data(Payload(k))) : k \in {1, 2} }

InitRiff ==
    /\ tree = NoChunk
    /\ w = <<>>
    /\ n = 0
    /\ b = <<>>
    /\ edited = FALSE
    /\ check = TRUE
    /\ result = NoResult
    /\ w2 = <<>>

InitJpeg ==
    /\ seg = [marker |-> 0, contents |-> <<>>, entropy |-> <<>>]
    /\ jargs = <<>>
    /\ r = <<>>
    /\ jres = NoResult
    /\ jn = [len |-> 0, len_with_entropy |-> 0]
    /\ jw = NoResult

InitBig ==
    /\ big = <<>>
    /\ bigres = NoResult

\* RiffChunk::new(id, RiffContent::Data(..))
NewData ==
    /\ pc = "start"
    /\ \E id \in Ids, k \in 0..MaxData :
         tree' = RiffChunk_new(id, Data(Payload(k)))
    /\ pc' = "built"
    /\ UNCHANGED <<w, n, b, edited, check, result, w2, jpegVars, bigVars>>

\* RiffChunk::new(id, RiffContent::List { kind, subchunks: vec![] })
NewEmptyList ==
    /\ pc = "start"
    /\ \E id \in Ids, kind \in {<<>>, <<WEBP>>} :
         tree' = RiffChunk_new(id, List(kind, <<>>))
    /\ pc' = "built"
    /\ UNCHANGED <<w, n, b, edited, check, result, w2, jpegVars, bigVars>>

\* RiffChunk::new(id, RiffContent::List { kind, subchunks }) around the
\* chunk built so far, alone or beside a sibling
NewList ==
    /\ pc = "built"
    /\ \E id \in Ids, kind \in {<<>>, <<WEBP>>},
          subs \in {<<tree>>} \cup { <<tree, s>> : s \in Siblings }
                              \cup { <<s, tree>> : s \in Siblings } :
         LET c == RiffChunk_new(id, List(kind, subs))
         IN  /\ RiffChunk_len(c) <= MaxBytes
             /\ tree' = c
    /\ UNCHANGED <<pc, w, n, b, edited, check, result, w2, jpegVars, bigVars>>

\* let n = tree.len(); tree.write_to(&mut vec)
WriteTo ==
    /\ pc = "built"
    /\ n' = RiffChunk_len(tree)
    /\ w' = RiffChunk_write_to(tree)
    /\ b' = RiffChunk_write_to(tree)
    /\ pc' = "written"
    /\ UNCHANGED <<tree, edited, check, result, w2, jpegVars, bigVars>>

\* one byte of the buffer is overwritten before it is decoded
SetByte ==
    /\ pc = "written"
    /\ ~edited
    /\ Len(b) <= MaxEditBytes
    /\ \E i \in 1..Len(b), v \in {0, 1, 9} :
         /\ b[i] # v
         /\ b' = [b EXCEPT ![i] = v]
    /\ edited' = TRUE
    /\ UNCHANGED <<pc, tree, w, n, check, result, w2, jpegVars, bigVars>>

\* the buffer is cut short before it is decoded
Truncate ==
    /\ pc = "written"
    /\ ~edited
    /\ Len(b) <= MaxEditBytes
    /\ \E k \in 0..(Len(b) - 1) : b' = Take(b, k)
    /\ edited' = TRUE
    /\ UNCHANGED <<pc, tree, w, n, check, result, w2, jpegVars, bigVars>>

\* bytes follow the chunk in the buffer
Extend ==
    /\ pc = "written"
    /\ ~edited
    /\ Len(b) <= MaxEditBytes
    /\ \E v \in {0, 9} : b' = Append(b, v)
    /\ edited' = TRUE
    /\ UNCHANGED <<pc, tree, w, n, check, result, w2, jpegVars, bigVars>>

\* RiffChunk::from_bytes(b), then write_to of the decoded chunk
FromBytes ==
    /\ pc = "written"
    /\ LET res == RiffChunk_from_bytes(b)
       IN  /\ result' = res
           /\ w2' = IF res.tag = "Ok" THEN RiffChunk_write_to(res.val) ELSE <<>>
    /\ check' = TRUE
    /\ pc' = "decoded"
    /\ UNCHANGED <<tree, w, n, b, edited, jpegVars, bigVars>>

\* RiffChunk::from_bytes_impl(&mut b, false), then write_to of the decoded chunk
FromBytesNoCheck ==
    /\ pc = "written"
    /\ LET res == from_bytes_impl(b, FALSE)
       IN  /\ result' = res
           /\ w2' = IF res.tag = "Ok" THEN RiffChunk_write_to(res.val) ELSE <<>>
    /\ check' = FALSE
    /\ pc' = "decoded"
    /\ UNCHANGED <<tree, w, n, b, edited, jpegVars, bigVars>>

---------------------------------------------------------------------------
(* jpeg/markers.rs and jpeg/entropy.rs are not among the source files; the  *)
(* marker classification and the entropy payload follow the interface the   *)
(* specification gives for them.                                            *)

\* markers::P, the framing prefix written before every marker
P == 255
SOI == 216
SOS == 218
APP1 == 225
APP2 == 226

Markers == {SOI, SOS, APP1, APP2}

\* markers::has_length: does the marker carry a 2-byte length field
has_length(marker) == marker \in {SOS, APP1, APP2}

\* markers::has_entropy: is the marker followed by entropy-coded data
has_entropy(marker) == marker = SOS

\* Entropy::len: the encoded byte count of the payload
Entropy_len(e) == Len(e)

\* Entropy::write_to: the payload's encoded bytes
Entropy_write_to(e) == e

\* Entropy::read: consumes the entropy-coded run that follows the contents
Entropy_read(rd) == [tag |-> "Ok", val |-> rd, rest |-> <<>>]

---------------------------------------------------------------------------
(* jpeg/segment.rs.  Option<T> is <<>> (None) or <<v>> (Some(v)).           *)

\* b"ICC_PROFILE\0"
ICC_DATA_PREFIX == <<73, 67, 67, 95, 80, 82, 79, 70, 73, 76, 69, 0>>

\* the largest value of the u16 length field
U16Max == 65535

\* WriteBytesExt::write_u16::<BigEndian>
U16BE(v) == << (v \div 256) % 256, v % 256 >>

JpegSegment_new(marker) ==
    [marker |-> marker, contents |-> <<>>, entropy |-> <<>>]

new_with_contents(marker, contents) ==
    [marker |-> marker, contents |-> contents, entropy |-> <<>>]

new_with_entropy(marker, contents, entropy) ==
    [marker |-> marker, contents |-> contents, entropy |-> <<entropy>>]

new_icc(seqno, num, buf) ==
    new_with_contents(APP2, ICC_DATA_PREFIX \o <<seqno>> \o <<num>> \o buf)

\* overflow_checks: whether the build panics on integer overflow (debug) or
\* wraps (release)
JpegSegment_read(marker, rd, overflow_checks) ==
    IF Len(rd) < 2
    THEN Err("UnexpectedEof")
    ELSE LET field == 256 * rd[1] + rd[2]
         IN  IF field < 2 /\ overflow_checks
             THEN Panic("attempt to subtract with overflow")
             ELSE LET size == (field + (U16Max + 1) - 2) % (U16Max + 1)
                      r1 == Drop(rd, 2)
                      got == IF size < Len(r1) THEN size ELSE Len(r1)
                      contents == Take(r1, got)
                      r2 == Drop(r1, got)
                  IN  IF ~has_entropy(marker)
                      THEN Ok(new_with_contents(marker, contents), r2)
                      ELSE LET entropy == Entropy_read(r2)
                           IN  IF entropy.tag # "Ok"
                               THEN entropy
                               ELSE Ok(new_with_entropy(marker, contents, entropy.val),
                                       entropy.rest)

\* len() of a segment whose contents hold clen bytes
SegmentLen(marker, clen) ==
    IF has_length(marker)
    THEN 2 + 2 + clen
    ELSE 2 + clen

JpegSegment_len(s) == SegmentLen(s.marker, Len(s.contents))

len_with_entropy(s) ==
    JpegSegment_len(s)
        + (IF s.entropy # <<>> THEN Entropy_len(s.entropy[1]) ELSE 0)

\* slice::get(i), slice::get(from..to), slice::get(from..)
SliceGet(s, i) == IF i < Len(s) THEN <<s[i + 1]>> ELSE <<>>
SliceGetRange(s, from, to) ==
    IF from <= to /\ to <= Len(s) THEN <<SubSeq(s, from + 1, to)>> ELSE <<>>
SliceGetFrom(s, from) == IF from <= Len(s) THEN <<Drop(s, from)>> ELSE <<>>

\* the value a query returned
Returned(v) == [tag |-> "Returned", val |-> v]

\* icc() that reads the two counters from each other's offset
JpegSegment_icc_swapped(s) ==
    IF /\ s.marker = APP2
       /\ SliceGetRange(s.contents, 0, Len(ICC_DATA_PREFIX)) = <<ICC_DATA_PREFIX>>
    THEN LET seqno == SliceGet(s.contents, 13)
             num == SliceGet(s.contents, 12)
             icc == SliceGetFrom(s.contents, 14)
         IN  IF seqno = <<>> \/ num = <<>> \/ icc = <<>>
             THEN Returned(<<>>)
             ELSE Returned(<< <<seqno[1], num[1], icc[1]>> >>)
    ELSE Returned(<<>>)

JpegSegment_icc(s) ==
    IF /\ s.marker = APP2
       /\ SliceGetRange(s.contents, 0, Len(ICC_DATA_PREFIX)) = <<ICC_DATA_PREFIX>>
    THEN LET seqno == SliceGet(s.contents, 12)
             num == SliceGet(s.contents, 13)
             icc == SliceGetFrom(s.contents, 14)
         IN  IF seqno = <<>> \/ num = <<>> \/ icc = <<>>
             THEN Returned(<<>>)
             ELSE Returned(<< <<seqno[1], num[1], icc[1]>> >>)
    ELSE Returned(<<>>)

\* what write_to does before it writes the contents: the prefix, the marker
\* and the length field, for a segment whose contents hold clen bytes
WriteHeader(marker, clen) ==
    LET field == SegmentLen(marker, clen) - 2
    IN  IF field > U16Max
        THEN Panic("try_into().unwrap()")
        ELSE Ok(<<P, marker>> \o U16BE(field), <<>>)

JpegSegment_write_to(s) ==
    LET head == WriteHeader(s.marker, Len(s.contents))
    IN  IF head.tag # "Ok"
        THEN head
        ELSE Ok(head.val \o s.contents
                    \o (IF s.entropy # <<>> THEN Entropy_write_to(s.entropy[1]) ELSE <<>>),
                <<>>)

---------------------------------------------------------------------------
(* The caller of the segment codec *)

\* largest sequence number and count given to new_icc
MaxSeq == 3
\* longest profile given to new_icc
MaxProfile == 2
\* longest contents announced by a stream given to JpegSegment::read
MaxSegLen == 3

IccContents ==
    { ICC_DATA_PREFIX \o <<s, k>> \o Payload(l) :
        s \in 1..MaxSeq, k \in 1..MaxSeq, l \in 0..MaxProfile }

\* contents the caller stores: short ones, tagged ones, tagged ones cut short,
\* and tagged ones with one byte of the signature or the counters changed
SegContents ==
    { Payload(k) : k \in 0..2 }
        \cup UNION { { Take(c, k) : k \in 0..Len(c) } : c \in IccContents }
        \cup UNION { { [Take(c, k) EXCEPT ![i] = 1] : i \in 1..k } :
                       c \in IccContents, k \in 1..(Len(ICC_DATA_PREFIX) + 2) }

\* streams handed to read: too short for the length field, or a length field
\* followed by as many bytes as announced, fewer, or more
Streams ==
    {<<>>, <<0>>}
        \cup { <<hi, lo>> \o Payload(k) :
                 hi \in {0, 1}, lo \in 0..(MaxSegLen + 2), k \in 0..(MaxSegLen + 1) }

JNew ==
    /\ pc = "jstart"
    /\ \E marker \in Markers : seg' = JpegSegment_new(marker)
    /\ jargs' = <<>>
    /\ pc' = "jbuilt"
    /\ UNCHANGED <<r, jres, jn, jw, riffVars, bigVars>>

JNewWithContents ==
    /\ pc = "jstart"
    /\ \E marker \in Markers, contents \in SegContents :
         seg' = new_with_contents(marker, contents)
    /\ jargs' = <<>>
    /\ pc' = "jbuilt"
    /\ UNCHANGED <<r, jres, jn, jw, riffVars, bigVars>>

JNewWithEntropy ==
    /\ pc = "jstart"
    /\ \E marker \in Markers, k \in 0..2, e \in 0..2 :
         seg' = new_with_entropy(marker, Payload(k), Payload(e))
    /\ jargs' = <<>>
    /\ pc' = "jbuilt"
    /\ UNCHANGED <<r, jres, jn, jw, riffVars, bigVars>>

JNewIcc ==
    /\ pc = "jstart"
    /\ \E seqno \in 0..MaxSeq, num \in 0..MaxSeq, l \in 0..MaxProfile :
         /\ seg' = new_icc(seqno, num, Payload(l))
         /\ jargs' = << <<seqno, num, Payload(l)>> >>
    /\ pc' = "jbuilt"
    /\ UNCHANGED <<r, jres, jn, jw, riffVars, bigVars>>

\* JpegSegment::read(marker, &mut r), for a marker that carries a length
JRead ==
    /\ pc = "jstart"
    /\ \E marker \in {m \in Markers : has_length(m)}, rd \in Streams,
          overflow_checks \in BOOLEAN :
         /\ r' = rd
         /\ jres' = JpegSegment_read(marker, rd, overflow_checks)
    /\ pc' = "jread"
    /\ UNCHANGED <<seg, jargs, jn, jw, riffVars, bigVars>>

\* seg.len(), seg.len_with_entropy(), seg.write_to(&mut vec)
JWriteTo ==
    /\ pc = "jbuilt"
    /\ jn' = [len |-> JpegSegment_len(seg), len_with_entropy |-> len_with_entropy(seg)]
    /\ jw' = JpegSegment_write_to(seg)
    /\ pc' = "jwritten"
    /\ UNCHANGED <<seg, jargs, r, jres, riffVars, bigVars>>

\* seg.icc()
JIcc ==
    /\ pc = "jbuilt"
    /\ jres' = JpegSegment_icc(seg)
    /\ pc' = "jqueried"
    /\ UNCHANGED <<seg, jargs, r, jn, jw, riffVars, bigVars>>

InitJ ==
    /\ pc = "jstart"
    /\ InitRiff
    /\ InitJpeg
    /\ InitBig

NextJ ==
    \/ JNew
    \/ JNewWithContents
    \/ JNewWithEntropy
    \/ JNewIcc
    \/ JRead
    \/ JWriteTo
    \/ JIcc

SpecJpeg == InitJ /\ [][NextJ]_vars

---------------------------------------------------------------------------
(* Sizes at the width of the length fields.  A segment of 64 KiB or a chunk *)
(* of 4 GiB is described by its sizes alone, its bytes left out.  A number  *)
(* too large for the model checker's integers is kept as two base-2^16      *)
(* digits: Wide(hi, lo) is hi * 2^16 + lo; it fits a u32 when hi < 2^16.    *)

Limb == 65536

Wide(hi, lo) == [hi |-> hi, lo |-> lo]

FitsU32(x) == x.hi < Limb

WideAdd(x, y) ==
    Wide(x.hi + y.hi + ((x.lo + y.lo) \div Limb), (x.lo + y.lo) % Limb)

\* `+` on u32: panics when the build checks overflow (debug), wraps when it
\* does not (release)
AddU32(x, y, overflow_checks) ==
    LET sum == WideAdd(x, y)
    IN  IF FitsU32(sum)
        THEN Ok(sum, <<>>)
        ELSE IF overflow_checks
             THEN Panic("attempt to add with overflow")
             ELSE Ok(Wide(sum.hi % Limb, sum.lo), <<>>)

\* RiffContent::Data holding size bytes
SizedData(size) == [variant |-> "Data", size |-> size]

RECURSIVE RiffChunk_len_u32(_, _), RiffContent_len_u32(_, _), SumLen_u32(_, _, _)

\* subchunks.iter().map(|subchunk| subchunk.len()).sum::<u32>()
SumLen_u32(cs, acc, overflow_checks) ==
    IF cs = <<>>
    THEN Ok(acc, <<>>)
    ELSE LET len == RiffChunk_len_u32(Head(cs), overflow_checks)
         IN  IF len.tag # "Ok"
             THEN len
             ELSE LET sum == AddU32(acc, len.val, overflow_checks)
                  IN  IF sum.tag # "Ok"
                      THEN sum
                      ELSE SumLen_u32(Tail(cs), sum.val, overflow_checks)

\* RiffContent::len at the width of u32
RiffContent_len_u32(c, overflow_checks) ==
    IF c.variant = "List"
    THEN LET sum == SumLen_u32(c.subchunks, Wide(0, 0), overflow_checks)
         IN  IF sum.tag # "Ok"
             THEN sum
             ELSE AddU32(IF c.kind # <<>> THEN Wide(0, 4) ELSE Wide(0, 0),
                         sum.val, overflow_checks)
    ELSE IF FitsU32(c.size)
         THEN Ok(c.size, <<>>)
         ELSE Panic("try_into().unwrap()")

\* RiffChunk::len at the width of u32
RiffChunk_len_u32(c, overflow_checks) ==
    LET content == RiffContent_len_u32(c.content, overflow_checks)
    IN  IF content.tag # "Ok"
        THEN content
        ELSE LET len == AddU32(Wide(0, 4 + 4), content.val, overflow_checks)
             IN  IF len.tag # "Ok"
                 THEN len
                 ELSE AddU32(len.val, Wide(0, len.val.lo % 2), overflow_checks)

\* the length field RiffChunk::write_to writes after the id
RiffChunk_write_field(c, overflow_checks) ==
    RiffContent_len_u32(c.content, overflow_checks)

---------------------------------------------------------------------------
(* The caller that measures and writes large segments and chunks *)

\* how far below and above the limit of a length field the sizes range
MaxSlack == 4

\* sizes of Data around 0, around the largest u32 and beyond it
DataSizes ==
    { Wide(0, k) : k \in 0..MaxSlack }
        \cup { Wide(Limb - 1, Limb - 1 - k) : k \in 0..(8 + MaxSlack) }
        \cup { Wide(Limb, k) : k \in 0..MaxSlack }

\* sizes of Data around half of the largest u32
HalfSizes ==
    { Wide(Limb \div 2 - 1, Limb - 8 - k) : k \in 0..MaxSlack }
        \cup { Wide(Limb \div 2, k) : k \in 0..MaxSlack }

\* seg.write_to(&mut w) for a segment whose contents hold clen bytes
SizeSegment ==
    /\ pc = "sstart"
    /\ \E marker \in Markers,
          clen \in (U16Max - 2 - MaxSlack)..(U16Max - 2 + MaxSlack) :
         /\ big' = [marker |-> marker, clen |-> clen]
         /\ bigres' = WriteHeader(marker, clen)
    /\ pc' = "segment sized"
    /\ UNCHANGED <<riffVars, jpegVars>>

\* chunk.len() and the length field of chunk.write_to(&mut w) for a Data chunk
SizeData ==
    /\ pc = "sstart"
    /\ \E size \in DataSizes, overflow_checks \in BOOLEAN :
         LET c == RiffChunk_new(VP8X, SizedData(size))
         IN  /\ big' = c
             /\ bigres' = [len |-> RiffChunk_len_u32(c, overflow_checks),
                           field |-> RiffChunk_write_field(c, overflow_checks)]
    /\ pc' = "chunk sized"
    /\ UNCHANGED <<riffVars, jpegVars>>

\* chunk.len() and the length field of chunk.write_to(&mut w) for a RIFF list
\* of one or two Data chunks
SizeList ==
    /\ pc = "sstart"
    /\ \E s1 \in HalfSizes, s2 \in HalfSizes \cup {Wide(0, 0)}, overflow_checks \in BOOLEAN :
         LET c == RiffChunk_new(RIFF, List(<<WEBP>>,
                      << RiffChunk_new(VP8X, SizedData(s1)),
                         RiffChunk_new(VP8X, SizedData(s2)) >>))
         IN  /\ big' = c
             /\ bigres' = [len |-> RiffChunk_len_u32(c, overflow_checks),
                           field |-> RiffChunk_write_field(c, overflow_checks)]
    /\ pc' = "chunk sized"
    /\ UNCHANGED <<riffVars, jpegVars>>

InitS ==
    /\ pc = "sstart"
    /\ InitRiff
    /\ InitJpeg
    /\ InitBig

NextS ==
    \/ SizeSegment
    \/ SizeData
    \/ SizeList

SpecSizes == InitS /\ [][NextS]_vars

---------------------------------------------------------------------------
(* The caller of the chunk codec, from construction to decode *)

Init ==
    /\ pc = "start"
    /\ InitRiff
    /\ InitJpeg
    /\ InitBig

Next ==
    \/ NewData
    \/ NewEmptyList
    \/ NewList
    \/ WriteTo
    \/ SetByte
    \/ Truncate
    \/ Extend
    \/ FromBytes
    \/ FromBytesNoCheck

Spec == Init /\ [][Next]_vars

---------------------------------------------------------------------------
(* What a well-formed chunk buffer is (the persisted layout): a tag, a      *)
(* little-endian length field that fits the bytes present, the content, and *)
(* one pad byte after Data of odd length.  A container's content is an      *)
(* optional kind followed by a run of whole chunks.                         *)

RECURSIVE ChunkRun(_, _)

\* s is a run of whole chunks; strict: every pad byte is 0x00
ChunkRun(s, strict) ==
    \/ s = <<>>
    \/ /\ Len(s) >= 8
       /\ 8 + GetU32LE(SubSeq(s, 5, 8)) <= Len(s)
       /\ LET id == Take(s, 4)
              len == GetU32LE(SubSeq(s, 5, 8))
              content == SubSeq(s, 9, 8 + len)
              after == Drop(s, 8 + len)
          IN  IF has_subchunks(id)
              THEN /\ has_kind(id) => len >= 4
                   /\ ChunkRun(IF has_kind(id) THEN Drop(content, 4) ELSE content, strict)
                   /\ ChunkRun(after, strict)
              ELSE /\ len % 2 = 1 => after # <<>>
                   /\ (strict /\ len % 2 = 1) => after[1] = 0
                   /\ ChunkRun(Drop(after, len % 2), strict)

\* s is exactly one whole chunk
OneChunk(s, strict) ==
    /\ ChunkRun(s, strict)
    /\ Len(s) >= 8
    /\ LET len == GetU32LE(SubSeq(s, 5, 8))
       IN  Len(s) = 8 + len + (IF has_subchunks(Take(s, 4)) THEN 0 ELSE len % 2)

\* s is exactly one whole chunk with id RIFF
WellFormedRiff(s, strict) == OneChunk(s, strict) /\ Take(s, 4) = RIFF

IsOddData(c) == c.content.variant = "Data" /\ Len(c.content.data) % 2 = 1

---------------------------------------------------------------------------
(* C1 *)

\* C1 as stated: whenever from_bytes is given a buffer that is one RIFF chunk
\* whose length fields all fit the bytes present, it succeeds and write_to of
\* the decoded chunk reproduces the buffer byte for byte, pad bytes included.
C1_RoundTripAnyPad ==
    (pc = "decoded" /\ check /\ WellFormedRiff(b, FALSE))
        => (result.tag = "Ok" /\ w2 = b)

\* C1 amended: the same, for buffers whose pad bytes are all 0x00.
C1_RoundTripZeroPad ==
    (pc = "decoded" /\ check /\ WellFormedRiff(b, TRUE))
        => (result.tag = "Ok" /\ w2 = b)

\* an altered, still well-formed buffer with a nested list and an odd Data
\* chunk was decoded and written back unchanged
C1_Witness ==
    /\ pc = "decoded" /\ check /\ edited
    /\ WellFormedRiff(b, TRUE)
    /\ result.tag = "Ok" /\ w2 = b
    /\ \E i \in 1..Len(result.val.content.subchunks) :
         LET c == result.val.content.subchunks[i]
         IN  /\ c.content.variant = "List"
             /\ \E j \in 1..Len(c.content.subchunks) : IsOddData(c.content.subchunks[j])

---------------------------------------------------------------------------
(* C2 *)

RoundUpEven(k) == k + (k % 2)

\* C2: the value len() returns is the number of bytes write_to writes, for
\* the tree the caller built and for every decoded tree, and it is 8 plus the
\* content length rounded up to even, a List's content length being 4 for a
\* kind plus its children's len().
C2_LenIsBytesWritten ==
    /\ pc \in {"written", "decoded"} =>
         /\ n = Len(w)
         /\ n = RoundUpEven(8 + (IF tree.content.variant = "List"
                                 THEN (IF tree.content.kind # <<>> THEN 4 ELSE 0)
                                          + SumLen(tree.content.subchunks)
                                 ELSE Len(tree.content.data)))
    /\ (pc = "decoded" /\ result.tag = "Ok") =>
         RiffChunk_len(result.val) = Len(w2)

\* a list holding a non-empty list and an odd Data chunk was measured and written
C2_Witness ==
    /\ pc = "written"
    /\ n = Len(w)
    /\ tree.content.variant = "List"
    /\ \E i, j \in 1..Len(tree.content.subchunks) :
         /\ tree.content.subchunks[i].content.variant = "List"
         /\ tree.content.subchunks[i].content.subchunks # <<>>
         /\ IsOddData(tree.content.subchunks[j])

---------------------------------------------------------------------------
(* C4 *)

\* the root's length field claims more bytes than the buffer holds
RootOverrun(s) ==
    /\ Len(s) >= 8
    /\ Take(s, 4) = RIFF
    /\ GetU32LE(SubSeq(s, 5, 8)) > Len(s) - 8

\* the root fits the buffer and its first sub-chunk's length field claims more
\* bytes than the root's content holds
SubOverrun(s) ==
    /\ Len(s) >= 20
    /\ Take(s, 4) = RIFF
    /\ GetU32LE(SubSeq(s, 5, 8)) = Len(s) - 8
    /\ GetU32LE(SubSeq(s, 17, 20)) > Len(s) - 20

\* C4 as stated: when a chunk's length field claims more bytes than remain in
\* its enclosing buffer, from_bytes returns an error value: truncated input for
\* the root, malformed nesting for a sub-chunk.
C4_OverrunIsError ==
    /\ (pc = "decoded" /\ check /\ RootOverrun(b)) => result = Err("TruncatedInput")
    /\ (pc = "decoded" /\ check /\ SubOverrun(b)) => result = Err("MalformedNesting")

---------------------------------------------------------------------------
(* C7 *)

\* C7: on a buffer whose first four bytes are not RIFF, from_bytes returns
\* NoRiffHeader; from_bytes_impl without the root check, on such a buffer
\* that is one well-formed chunk, succeeds with a chunk carrying that id.
C7_RootValidation ==
    (pc = "decoded" /\ Len(b) >= 4 /\ Take(b, 4) # RIFF) =>
        /\ check => result = Err("NoRiffHeader")
        /\ (~check /\ OneChunk(b, FALSE)) =>
             /\ result.tag = "Ok"
             /\ result.val.id = Take(b, 4)
             /\ result.rest = <<>>

\* a well-formed LIST chunk with a sub-chunk was decoded without the root check
C7_Witness ==
    /\ pc = "decoded" /\ ~check
    /\ Len(b) >= 4 /\ Take(b, 4) = LIST
    /\ OneChunk(b, FALSE)
    /\ result.tag = "Ok"
    /\ result.val.id = LIST
    /\ result.val.content.subchunks # <<>>

---------------------------------------------------------------------------
(* C9 *)

RECURSIVE SameShape(_, _)

\* the two trees have, node by node, the same id, the same variant and the
\* same presence of a kind
SameShape(x, y) ==
    /\ x.id = y.id
    /\ x.content.variant = y.content.variant
    /\ x.content.variant = "List" =>
         /\ (x.content.kind = <<>>) = (y.content.kind = <<>>)
         /\ Len(x.content.subchunks) = Len(y.content.subchunks)
         /\ \A i \in 1..Len(x.content.subchunks) :
              SameShape(x.content.subchunks[i], y.content.subchunks[i])

\* C9 as stated: for every tree built with RiffChunk::new and rooted at RIFF,
\* from_bytes of what write_to wrote succeeds and yields, at every node, the
\* variant and the kind presence of the tree that was written.
C9_SameVariants ==
    (pc = "decoded" /\ check /\ ~edited /\ tree.id = RIFF) =>
        (result.tag = "Ok" /\ SameShape(result.val, tree))

---------------------------------------------------------------------------
(* C10 *)

\* what the claim says a Data chunk's encoding is: the id, the unpadded length,
\* the data, and one 0x00 byte exactly when the data's length is odd
PaddedData(c) ==
    c.id \o U32LE(Len(c.content.data)) \o c.content.data
         \o (IF Len(c.content.data) % 2 = 1 THEN <<0>> ELSE <<>>)

RECURSIVE PaddedRun(_)

\* the encodings of sibling chunks, one after the other
PaddedRun(cs) ==
    IF cs = <<>> THEN <<>>
    ELSE (IF Head(cs).content.variant = "Data"
          THEN PaddedData(Head(cs))
          ELSE RiffChunk_write_to(Head(cs))) \o PaddedRun(Tail(cs))

\* a container whose id and kind agree and whose children are all Data chunks
\* under data tags
DataChildrenOnly(c) ==
    /\ c.content.variant = "List"
    /\ has_subchunks(c.id)
    /\ has_kind(c.id) = (c.content.kind # <<>>)
    /\ \A i \in 1..Len(c.content.subchunks) :
         /\ c.content.subchunks[i].content.variant = "Data"
         /\ ~has_subchunks(c.content.subchunks[i].id)

\* C10: write_to puts exactly one 0x00 byte after Data of odd length and before
\* the next sibling, none after Data of even length, and the length field holds
\* the unpadded length; decode skips that one byte and leaves it out of the Data.
C10_Padding ==
    /\ (pc \in {"written", "decoded"} /\ tree.content.variant = "Data") =>
         w = PaddedData(tree)
    /\ (pc \in {"written", "decoded"} /\ tree.content.variant = "List") =>
         Drop(w, 8 + (IF tree.content.kind # <<>> THEN 4 ELSE 0))
             = PaddedRun(tree.content.subchunks)
    /\ (pc = "decoded" /\ ~edited /\ (check => tree.id = RIFF)
          /\ (DataChildrenOnly(tree)
                \/ (tree.content.variant = "Data" /\ ~has_subchunks(tree.id)))) =>
         result = Ok(tree, <<>>)

\* an odd Data chunk followed by a sibling was written and decoded again
C10_Witness ==
    /\ pc = "decoded" /\ ~edited /\ check
    /\ DataChildrenOnly(tree)
    /\ Len(tree.content.subchunks) = 2
    /\ IsOddData(tree.content.subchunks[1])
    /\ result = Ok(tree, <<>>)
    /\ w[8 + 4 + 8 + Len(tree.content.subchunks[1].content.data) + 1] = 0

---------------------------------------------------------------------------
(* C3 *)

\* C3 as stated: for every segment, len_with_entropy() is the number of bytes
\* write_to writes, len() is that number less the entropy payload, and the
\* length field is written only for a marker that requires one.
C3_SegmentLenIsBytesWritten ==
    (pc = "jwritten" /\ jw.tag = "Ok") =>
        /\ jn.len_with_entropy = Len(jw.val)
        /\ jn.len = Len(jw.val)
                      - (IF seg.entropy # <<>> THEN Entropy_len(seg.entropy[1]) ELSE 0)
        /\ ~has_length(seg.marker) =>
             jw.val = <<P, seg.marker>> \o seg.contents
                          \o (IF seg.entropy # <<>> THEN seg.entropy[1] ELSE <<>>)

---------------------------------------------------------------------------
(* C5 *)

---------------------------------------------------------------------------
(* C6 *)

RECURSIVE TrueChunkLen(_), TrueContentLen(_), TrueSum(_)

\* the number of bytes a chunk's content and a chunk take when encoded, at no
\* fixed width
TrueSum(cs) ==
    IF cs = <<>> THEN Wide(0, 0) ELSE WideAdd(TrueChunkLen(Head(cs)), TrueSum(Tail(cs)))

TrueContentLen(c) ==
    IF c.variant = "List"
    THEN WideAdd(IF c.kind # <<>> THEN Wide(0, 4) ELSE Wide(0, 0), TrueSum(c.subchunks))
    ELSE c.size

TrueChunkLen(c) ==
    LET len == WideAdd(Wide(0, 8), TrueContentLen(c.content))
    IN  WideAdd(len, Wide(0, len.lo % 2))

\* C6 as stated: when 2 + content length does not fit the 16-bit length field
\* of a segment, or the content length of a chunk does not fit its 32-bit
\* length field, write_to and len() report an error to their caller.
C6_OverflowIsError ==
    /\ (pc = "segment sized" /\ has_length(big.marker) /\ 2 + big.clen > U16Max) =>
         bigres.tag = "Err"
    /\ (pc = "chunk sized" /\ ~FitsU32(TrueContentLen(big.content))) =>
         (bigres.field.tag = "Err" /\ bigres.len.tag = "Err")

\* the same, for chunks alone
C6_ChunkOverflowIsError ==
    (pc = "chunk sized" /\ ~FitsU32(TrueContentLen(big.content))) =>
        (bigres.field.tag = "Err" /\ bigres.len.tag = "Err")

\* the length field and len() never hold a wrapped value
C6_NeverWrapped ==
    pc = "chunk sized" =>
        /\ bigres.field.tag = "Ok" => bigres.field.val = TrueContentLen(big.content)
        /\ bigres.len.tag = "Ok" => bigres.len.val = TrueChunkLen(big)

---------------------------------------------------------------------------
(* C8 *)

\* C8: icc() of new_icc(s, n, p) returns (s, n, p); icc() of a segment whose
\* marker is not APP2, or whose first 12 bytes are not the signature, or whose
\* contents are shorter than 14 bytes, returns nothing; icc() never panics.
C8_IccTagging ==
    pc = "jqueried" =>
        /\ jres.tag = "Returned"
        /\ jargs # <<>> => jres.val = jargs
        /\ ( \/ seg.marker # APP2
             \/ Len(seg.contents) < Len(ICC_DATA_PREFIX) + 2
             \/ Take(seg.contents, Len(ICC_DATA_PREFIX)) # ICC_DATA_PREFIX )
               => jres.val = <<>>

\* new_icc(2, 3, p) with a two-byte profile was queried
C8_Witness ==
    /\ pc = "jqueried"
    /\ jargs = << <<2, 3, Payload(2)>> >>
    /\ jres = Returned(<< <<2, 3, Payload(2)>> >>)

===========================================================================
